---- MODULE Spec2Model ----
(***************************************************************************)
(* The zoom / zoom-back transition state machine of the FaultyTerminal     *)
(* background (update(), the gather-progress part) and App, the navigation *)
(* controller that drives it through the transitionRequested /             *)
(* zoomBackRequested props and the two completion callbacks.               *)
(*                                                                         *)
(* Time is in milliseconds.  uGatherProgress is kept as an exact fraction: *)
(* the variable holds the numerator over ProgressDen.                      *)
(*                                                                         *)
(* update() does four things, and each is followed by a specification of   *)
(* its own, the variables of the others held fixed:                        *)
(*   Spec, AppSpec   the transition state machine (Tick, AppTick)          *)
(*   SchedSpec       the scheduling: frame callbacks, the background timer *)
(*                   of a hidden page, re-initialization, unmount          *)
(*                   (DeliverySpec adds repeated visibilitychange events)  *)
(*   FrameSpec       elapsed time, pause, page-load progress               *)
(*   MouseSpec       mouse smoothing (PointerSpec: pointer positions       *)
(*                   outside the container)                                *)
(*   BackgroundSpec  the transition under the scheduling of a hidden page, *)
(*                   with the fairness of the browser's callbacks          *)
(*   ReconfigSpec    the transition under a parent that changes a prop of  *)
(*                   the effect's dependency list                          *)
(* ResizeSpec follows resize() and its throttle.  Reinit, the effect run   *)
(* again after a prop change, is one action for all of them.  ShaderSpec   *)
(* evaluates the gather remap of the fragment shader's main() in exact     *)
(* rationals, and ShuffleSpec follows the Shuffle label: its timeline, the *)
(* playing flag and the hover handler.                                     *)
(***************************************************************************)
EXTENDS Integers, Sequences, FiniteSets, TLC

VARIABLES
    now,                    \* timestamp handed to the latest update(t)
    transitionRequested,    \* App state, passed as a prop
    transitionTarget,       \* App state, passed as a prop
    selectedWord,           \* App state
    zoomBackRequested,      \* App state, passed as a prop
    shownWord,              \* selectedWord of the committed render (which view is on screen)
    transitionRequestedRef, \* FaultyTerminal refs, assigned on every render
    transitionTargetRef,
    zoomBackRequestedRef,
    transitionStartRef,     \* 0 = unstarted, -1 = completed, else start timestamp
    zoomBackStartRef,
    uGatherProgress,        \* program.uniforms.uGatherProgress.value * ProgressDen
    uTargetPos,             \* program.uniforms.uTargetPos.value
    last,                   \* what the latest update() did (observation only)
    tcCalls,                \* onTransitionComplete calls since a tick last saw the flag false
    zbcCalls,               \* onZoomBackComplete calls since a tick last saw the flag false
    sinceTC,                \* observation: what happened since the latest onTransitionComplete
    abort,                  \* observation: a zoom-in whose request was cleared before completion
    trip,                   \* observation: the events of App's current page visit
    hidden,                 \* document.hidden
    surface,                \* generation of the mounted effect (its closure), 0 = unmounted
    rafQueue,               \* pending requestAnimationFrame callbacks, in registration order
    visibilityIntervalRef,  \* "null" or "id"
    intervals,              \* active setInterval timers
    lastEvent,              \* observation: the latest scheduler event and the updates it ran
    effectError,            \* "none", or where the latest effect run threw
    reinitLog,              \* observation: zoomed = the latest re-run of the effect found
                            \* the gather complete (progress 1) and no request flag set,
                            \* target = the target position uniform it found then
    clock,                  \* performance.now()
    innerWidth,             \* window.innerWidth
    innerHeight,            \* window.innerHeight
    scale,                  \* the scale prop in tenths
    dpr,                    \* the effect's dpr (the capped devicePixelRatio) in quarters
    resizeTick,             \* time of the latest resize that throttledResize let through
    iResolution,            \* program.uniforms.iResolution.value
    uScale,                 \* program.uniforms.uScale.value * UScaleDen
    rendererSize,           \* the size handed to renderer.setSize
    canvasStyle,            \* canvas.style.width and height, in px
    devicePixelRatio,       \* window.devicePixelRatio in quarters, 0 = none reported
    resizeLog,              \* observation: what the latest resize event or effect run did:
                            \* at = time of the effect run's latest resize run by an event,
                            \* gap = time since the one before, same = the window was as
                            \* the previous resize read it, ratio = the devicePixelRatio
                            \* the effect read
    pause,                  \* props
    pageLoadAnimation,
    timeScale,              \* in tenths
    timeOffsetRef,          \* in ms
    frozenTimeRef,          \* in units of 1 / ITimeDen s, as iTime
    iTime,                  \* program.uniforms.iTime.value * ITimeDen
    loadAnimationStartRef,
    uPageLoadProgress,      \* program.uniforms.uPageLoadProgress.value * animationDuration
    frameLog,               \* observation: snapshot = iTime of the latest tick not paused,
                            \* recorded = time of the tick that recorded the load start,
                            \* wrote = the latest tick wrote uPageLoadProgress,
                            \* written, before = the latest value ticks wrote to it and
                            \* the one before the latest tick,
                            \* time = what the latest tick wrote to iTime
    mouseRef,               \* raw mouse position, in hundredths
    smoothMouseRef,         \* smoothed position: numerators over 100 * smoothDen
    smoothed,               \* how many ticks have smoothed the position
    smoothDen,              \* DampingDen^smoothed
    mouseLog,               \* observation: held = ticks since the raw position last
                            \* changed, from = the smoothed position then, prev = the one
                            \* before the latest tick (both over the current denominator)
    headerAtTop,            \* App state: the header is at the top of the screen
    headerRaf,              \* the pending callback of App's deferred setHeaderAtTop(true):
                            \* "none", "outer" or "inner"
    shuffleProps,           \* Shuffle: the props loop, triggerOnce, triggerOnHover, and
                            \* whether build() yields strips (characters with a width)
    playingRef,             \* Shuffle: playingRef.current
    tlRef,                  \* Shuffle: the timeline: "null", "running" or "complete"
    hoverHandlerRef,        \* Shuffle: a mouseenter listener is registered
    shuffleLog,             \* observation: created = create() has run, runs = build+play
                            \* runs, repeats = onRepeat calls, hovers = mouseenter events
    drawUniforms,           \* the uniform values a draw call hands to the fragment shader
    fragment                \* the latest fragment main() shaded: p = uv * uScale,
                            \* sample = the position handed to getColor

appVars == <<transitionRequested, transitionTarget, selectedWord, zoomBackRequested, shownWord>>
refVars == <<transitionRequestedRef, transitionTargetRef, zoomBackRequestedRef>>
tickVars == <<now, transitionStartRef, zoomBackStartRef, uGatherProgress, uTargetPos,
              last, tcCalls, zbcCalls, sinceTC, abort>>
zoomVars == <<appVars, refVars, tickVars, trip>>
schedVars == <<hidden, surface, rafQueue, visibilityIntervalRef, intervals, lastEvent,
               effectError>>
resizeVars == <<clock, innerWidth, innerHeight, scale, dpr, resizeTick,
                iResolution, uScale, rendererSize, resizeLog, canvasStyle, devicePixelRatio>>
frameVars == <<pause, pageLoadAnimation, timeScale, timeOffsetRef, frozenTimeRef, iTime,
               loadAnimationStartRef, uPageLoadProgress, frameLog>>
mouseVars == <<mouseRef, smoothMouseRef, smoothed, smoothDen, mouseLog>>
shaderVars == <<drawUniforms, fragment>>
programVars == <<reinitLog>>
headerVars == <<headerAtTop, headerRaf>>
shuffleVars == <<shuffleProps, playingRef, tlRef, hoverHandlerRef, shuffleLog>>
sliceVars == <<schedVars, resizeVars, frameVars, mouseVars, shaderVars, shuffleVars,
               programVars>>
restVars == <<sliceVars, headerVars>>
notSchedVars == <<zoomVars, resizeVars, frameVars, mouseVars, shaderVars, headerVars,
                  shuffleVars,
                  programVars>>
notResizeVars == <<zoomVars, schedVars, frameVars, mouseVars, shaderVars, headerVars,
                  shuffleVars,
                  programVars>>
notFrameVars == <<appVars, refVars, trip, schedVars, resizeVars, mouseVars, shaderVars,
                  headerVars, shuffleVars,
                  programVars>>
notShuffleVars == <<zoomVars, schedVars, resizeVars, frameVars, mouseVars, shaderVars,
                    headerVars,
                  programVars>>
notMouseVars == <<zoomVars, schedVars, resizeVars, frameVars, shaderVars, headerVars,
                  shuffleVars,
                  programVars>>
notShaderVars == <<zoomVars, schedVars, resizeVars, frameVars, mouseVars, headerVars,
                  shuffleVars,
                  programVars>>
vars == <<zoomVars, restVars>>

----------------------------------------------------------------------------
(* Constants of the program *)

GATHER_DURATION_MS == 1100

(* Bounds of the model: the last timestamp, the cap of the call counters,   *)
(* the cap of the event log of a page visit                                 *)

MaxTime == 3000
MaxCalls == 2
MaxLog == 6

(* the runs of the effect of one component: the mount and its               *)
(* re-initializations                                                       *)
MaxGen == 3

(* the frame callbacks pending at once, where repeated deliveries could     *)
(* add to them without end                                                  *)
MaxPending == 4

(* the last reading of performance.now() by a resize event *)
MaxClock == 600

(* the ticks that smooth the mouse position, and the ticks during which     *)
(* the mouse still moves (it rests after them)                              *)
MaxSmoothTicks == 57
MaxMoveTicks == 3

(* Time between two consecutive runs of update: a background-timer period,   *)
(* a stall inside a phase, a stall of almost a whole phase.                  *)
TickDeltas == {100, 500, 1000}

NULL == "null"
ProgressDen == GATHER_DURATION_MS * GATHER_DURATION_MS * GATHER_DURATION_MS

Words == {"about", "resume", "cover"}

(* A target is a record; absent is TRUE for a null target and a coordinate    *)
(* of -1 is a missing (null / undefined) coordinate.                          *)
Point(px, py) == [absent |-> FALSE, x |-> px, y |-> py]
NoTarget == [absent |-> TRUE, x |-> -1, y |-> -1]

(* Centre of a label in percent of the viewport, origin bottom-left; the     *)
(* three labels are stacked in the middle of the screen.                      *)
LabelCentre(w) ==
    CASE w = "about"  -> Point(50, 60)
      [] w = "resume" -> Point(50, 50)
      [] w = "cover"  -> Point(50, 40)

DefaultTargetPos == Point(50, 50)

(* Targets a parent other than App may pass. *)
TargetInputs == {NoTarget, Point(50, 60), Point(25, -1)}

----------------------------------------------------------------------------
(* Pure helpers of FaultyTerminal *)

(* variant of easeOutCubic: (1 - t)^3, the "1 -" left out *)
easeOutCubicNoComplement(tNum) ==
    LET r == GATHER_DURATION_MS - tNum
    IN  r * r * r

(* easeOutCubic(t) = 1 - (1 - t)^3 for t = tNum / GATHER_DURATION_MS,       *)
(* as a numerator over ProgressDen.                                         *)
easeOutCubic(tNum) ==
    LET r == GATHER_DURATION_MS - tNum
    IN  ProgressDen - r * r * r

(* variant of HasCoords: one coordinate is enough *)
HasCoordsEither(target) == ~target.absent /\ (target.x # -1 \/ target.y # -1)
(* target && target.x != null && target.y != null *)
HasCoords(target) == ~target.absent /\ target.x # -1 /\ target.y # -1

(* variant of StillAnimating: a duration 100 ms too short *)
StillAnimatingShorter(elapsed) == elapsed < GATHER_DURATION_MS - 100

(* elapsed < GATHER_DURATION_MS: the phase is still animating *)
StillAnimating(elapsed) == elapsed < GATHER_DURATION_MS

(* zoomBackRequestedRef.current && zoomBackStartRef.current >= 0 *)
ZoomBackBranch == zoomBackRequestedRef /\ zoomBackStartRef >= 0

(* else if (transitionRequestedRef.current && transitionStartRef.current >= 0) *)
ZoomInBranch == ~ZoomBackBranch /\ transitionRequestedRef /\ transitionStartRef >= 0

(* else if (!transitionRequestedRef.current) *)
ResetBranch == ~ZoomBackBranch /\ ~ZoomInBranch /\ ~transitionRequestedRef

(* if (xStartRef.current === 0) xStartRef.current = t *)
PhaseStart(startRef, t) == IF startRef = 0 THEN t ELSE startRef

ZoomBackElapsed(t) == t - PhaseStart(zoomBackStartRef, t)
ZoomInElapsed(t) == t - PhaseStart(transitionStartRef, t)

(* variants of ZoomBackProgress: without the elapsed < duration guard, without *)
(* the final write of exactly 0, and without the "1 -"                        *)
ZoomBackProgressUnclamped(elapsed) == ProgressDen - easeOutCubic(elapsed)

ZoomBackProgressNoSnap(elapsed) ==
    IF StillAnimating(elapsed) THEN ProgressDen - easeOutCubic(elapsed) ELSE uGatherProgress

ZoomBackProgressEaseOnly(elapsed) ==
    IF StillAnimating(elapsed) THEN easeOutCubic(elapsed) ELSE 0

(* the value the zoom-back branch writes to uGatherProgress *)
ZoomBackProgress(elapsed) ==
    IF StillAnimating(elapsed) THEN ProgressDen - easeOutCubic(elapsed) ELSE 0

(* the value the zoom-in branch writes to uGatherProgress *)
ZoomInProgress(elapsed) ==
    IF StillAnimating(elapsed) THEN easeOutCubic(elapsed) ELSE ProgressDen

(* variant of NextTransitionStart: the reset branch left out *)
NextTransitionStartNoReset(t) ==
    IF ZoomInBranch
    THEN IF StillAnimating(ZoomInElapsed(t)) THEN PhaseStart(transitionStartRef, t) ELSE -1
    ELSE transitionStartRef

(* transitionStartRef after update(t) *)
NextTransitionStart(t) ==
    IF ZoomInBranch
    THEN IF StillAnimating(ZoomInElapsed(t)) THEN PhaseStart(transitionStartRef, t) ELSE -1
    ELSE IF ResetBranch THEN 0 ELSE transitionStartRef

(* variant of NextZoomBackStart: zoomBackStartRef not set to -1 on completion *)
NextZoomBackStartNoLatch(t) ==
    IF ~zoomBackRequestedRef THEN 0
    ELSE IF ZoomBackBranch THEN PhaseStart(zoomBackStartRef, t)
    ELSE zoomBackStartRef

(* zoomBackStartRef after update(t): the branch, then the trailing reset *)
NextZoomBackStart(t) ==
    IF ~zoomBackRequestedRef THEN 0
    ELSE IF ZoomBackBranch
         THEN IF StillAnimating(ZoomBackElapsed(t)) THEN PhaseStart(zoomBackStartRef, t) ELSE -1
         ELSE zoomBackStartRef

(* the completion callback update(t) invokes, if any *)
Called(t) ==
    IF ZoomBackBranch /\ ~StillAnimating(ZoomBackElapsed(t)) THEN "onZoomBackComplete"
    ELSE IF ZoomInBranch /\ ~StillAnimating(ZoomInElapsed(t)) THEN "onTransitionComplete"
    ELSE "none"

BranchTaken ==
    IF ZoomBackBranch THEN "zoomBack"
    ELSE IF ZoomInBranch THEN "zoomIn"
    ELSE IF ResetBranch THEN "reset"
    ELSE "none"

Cap(n) == IF n > MaxCalls THEN MaxCalls ELSE n

(* update(t): the transition state machine and what it writes *)
Update(t) ==
    /\ uTargetPos' = IF (ZoomBackBranch \/ ZoomInBranch) /\ HasCoords(transitionTargetRef)
                     THEN transitionTargetRef ELSE uTargetPos
    /\ uGatherProgress' = IF ZoomBackBranch THEN ZoomBackProgress(ZoomBackElapsed(t))
                          ELSE IF ZoomInBranch THEN ZoomInProgress(ZoomInElapsed(t))
                          ELSE uGatherProgress
    /\ transitionStartRef' = NextTransitionStart(t)
    /\ zoomBackStartRef' = NextZoomBackStart(t)
    /\ last' = [branch  |-> BranchTaken,
                cb      |-> Called(t),
                started |-> \/ ZoomBackBranch /\ zoomBackStartRef = 0
                            \/ ZoomInBranch /\ transitionStartRef = 0,
                afterAbort |-> IF ZoomInBranch THEN abort ELSE "none"]
    /\ tcCalls' = IF ~transitionRequestedRef THEN 0
                  ELSE IF Called(t) = "onTransitionComplete" THEN Cap(tcCalls + 1)
                  ELSE tcCalls
    /\ zbcCalls' = IF ~zoomBackRequestedRef THEN 0
                   ELSE IF Called(t) = "onZoomBackComplete" THEN Cap(zbcCalls + 1)
                   ELSE zbcCalls
    /\ sinceTC' = IF Called(t) = "onTransitionComplete" THEN "held"
                  ELSE IF zoomBackRequestedRef THEN "none"
                  ELSE IF ZoomInBranch /\ sinceTC = "held" THEN "rezoomed"
                  ELSE sinceTC
    /\ abort' = IF ZoomInBranch THEN "none"
                ELSE IF ResetBranch /\ abort = "pending" THEN "observed"
                ELSE abort

(* The zoomed state: the gather is complete and no request flag is set *)
Zoomed == uGatherProgress = ProgressDen /\ ~transitionRequestedRef /\ ~zoomBackRequestedRef

----------------------------------------------------------------------------
InitTransition ==
    /\ now = 0
    /\ transitionRequested = FALSE
    /\ transitionTarget = NoTarget
    /\ selectedWord = NULL
    /\ zoomBackRequested = FALSE
    /\ shownWord = NULL
    /\ transitionRequestedRef = FALSE
    /\ transitionTargetRef = NoTarget
    /\ zoomBackRequestedRef = FALSE
    /\ transitionStartRef = 0
    /\ zoomBackStartRef = -1
    /\ uGatherProgress = 0
    /\ uTargetPos = DefaultTargetPos
    /\ last = [branch |-> "none", cb |-> "none", started |-> FALSE, afterAbort |-> "none"]
    /\ tcCalls = 0
    /\ zbcCalls = 0
    /\ sinceTC = "none"
    /\ abort = "none"
    /\ trip = [fromIdle |-> FALSE, log |-> <<>>]
    /\ headerAtTop = FALSE
    /\ headerRaf = "none"

----------------------------------------------------------------------------
(* The frame scheduler: requestAnimationFrame and the background timer *)

(* A pending frame callback or an active timer runs the update of one       *)
(* effect closure (gen); ref says that the ref of its kind (rafRef,         *)
(* visibilityIntervalRef) holds its id.  A ref that holds 0, or the id of   *)
(* a callback that has fired or was cancelled, marks no entry.              *)
Scheduled(g) == [gen |-> g, ref |-> TRUE]

Untracked(q) == [i \in 1..Len(q) |-> [q[i] EXCEPT !.ref = FALSE]]

(* cancelAnimationFrame(rafRef.current), clearInterval(visibilityIntervalRef.current) *)
Cancelled(q) == SelectSeq(q, LAMBDA e : ~e.ref)

(* rafRef.current = requestAnimationFrame(update) *)
Requested(q, g) == Append(Untracked(q), Scheduled(g))

(* The head of update: rafRef.current = 0, and a new frame callback unless  *)
(* the document is hidden.                                                  *)
UpdateSchedule(q, g, h) == IF ~h THEN Requested(q, g) ELSE Untracked(q)

(* One animation frame runs the callbacks that were pending when it began,  *)
(* in registration order; q collects the callbacks they request.            *)
RECURSIVE RunFrame(_, _, _)
RunFrame(batch, q, h) ==
    IF batch = <<>> THEN q
    ELSE RunFrame(Tail(batch), UpdateSchedule(q, Head(batch).gen, h), h)

(* The effect's last scheduling statements: the first frame callback. *)
InitScheduler(h) ==
    /\ hidden = h
    /\ surface = 1
    /\ rafQueue = <<Scheduled(1)>>
    /\ visibilityIntervalRef = "null"
    /\ intervals = <<>>
    /\ lastEvent = [by |-> "mount", gens |-> {}]
    /\ effectError = "none"
    /\ reinitLog = [zoomed |-> FALSE, target |-> DefaultTargetPos]

(* Where the effect throws when no WebGL context can be created: in the    *)
(* Renderer constructor, or at gl.clearColor on the null renderer.gl; the  *)
(* effect has no try around either.                                        *)
ContextFailures == {"Renderer", "clearColor"}

(* The mount whose effect threw: nothing was registered and React, having  *)
(* no error boundary above the component, unmounts the tree.               *)
InitFailedMount(h, failure) ==
    /\ hidden = h
    /\ surface = 0
    /\ rafQueue = <<>>
    /\ visibilityIntervalRef = "null"
    /\ intervals = <<>>
    /\ lastEvent = [by |-> "mount", gens |-> {}]
    /\ effectError = failure
    /\ reinitLog = [zoomed |-> FALSE, target |-> DefaultTargetPos]

----------------------------------------------------------------------------
(* resize and its throttle *)

RESOLUTION_SCALE == 88          \* in hundredths
referenceWidth == 1920
referenceHeight == 1080
MaxDpr == 6                     \* 1.5 in quarters
ThrottleMs == 120

(* uScale is kept as an exact fraction: the numerator over UScaleDen        *)
(* (tenths of scale, quarters of dpr, w / 1920 and h / 1080 over their      *)
(* common denominator 17280).                                               *)
ReferenceDen == 9 * referenceWidth
UScaleDen == 10 * 4 * ReferenceDen

Min(a, b) == IF a <= b THEN a ELSE b

RECURSIVE Gcd(_, _)
Gcd(a, b) == IF b = 0 THEN a ELSE Gcd(b, a % b)

(* Math.ceil(n / d) for positive n, d *)
Ceil(n, d) == (n + d - 1) \div d

(* Math.min(window.devicePixelRatio || 1, 1.5), in quarters; a ratio of 0   *)
(* stands for an undefined one                                              *)
(* variant of EffectDpr: no cap *)
EffectDprUncapped(ratio) == IF ratio = 0 THEN 4 ELSE ratio
(* Math.min(window.devicePixelRatio || 1, 1.5), in quarters *)
EffectDpr(ratio) == Min(IF ratio = 0 THEN 4 ELSE ratio, MaxDpr)

(* variant of ScaleFactor: the larger of the two quotients *)
ScaleFactorMax(w, h, d) ==
    (IF w * (ReferenceDen \div referenceWidth) >= h * (ReferenceDen \div referenceHeight)
     THEN w * (ReferenceDen \div referenceWidth)
     ELSE h * (ReferenceDen \div referenceHeight)) * d
(* Math.min(w / referenceWidth, h / referenceHeight) * dpr, over 4 * 17280 *)
ScaleFactor(w, h, d) ==
    Min(w * (ReferenceDen \div referenceWidth), h * (ReferenceDen \div referenceHeight)) * d

(* iResolution.value.set(w, h, w / h); the quotient as a reduced fraction *)
Resolution(w, h) == [x |-> w, y |-> h, z |-> <<w \div Gcd(w, h), h \div Gcd(w, h)>>]

(* resize(): the uniforms and the renderer size from the window as it is.  *)
(* Math.ceil(w * 0.88) is taken exactly; for the window sizes of the model  *)
(* the double arithmetic gives the same integers.                           *)
resize(w, h) ==
    /\ rendererSize' = <<Ceil(w * RESOLUTION_SCALE, 100), Ceil(h * RESOLUTION_SCALE, 100)>>
    /\ canvasStyle' = <<w, h>>
    /\ iResolution' = Resolution(w, h)
    /\ uScale' = scale' * ScaleFactor(w, h, dpr')

(* The effect up to the registration of the resize listener, for a window   *)
(* of w x h, a device pixel ratio and a scale prop.                         *)
InitResize(w, h, ratio, sc) ==
    /\ clock = 0
    /\ innerWidth = w
    /\ innerHeight = h
    /\ scale = sc
    /\ dpr = EffectDpr(ratio)
    /\ resizeTick = 0
    /\ rendererSize = <<Ceil(w * RESOLUTION_SCALE, 100), Ceil(h * RESOLUTION_SCALE, 100)>>
    /\ canvasStyle = <<w, h>>
    /\ devicePixelRatio = ratio
    /\ iResolution = Resolution(w, h)
    /\ uScale = sc * ScaleFactor(w, h, EffectDpr(ratio))
    /\ resizeLog = [by |-> "effect", at |-> -1, gap |-> -1, same |-> FALSE, ratio |-> ratio]

----------------------------------------------------------------------------
(* Elapsed time, pause and the page-load animation *)

animationDuration == 2000

(* iTime is kept as an exact fraction: (ms + ms) * tenths over ITimeDen *)
ITimeDen == 1000 * 10

(* (t * 0.001 + timeOffsetRef.current) * timeScale *)
Elapsed(t) == (t + timeOffsetRef) * timeScale

(* variant of TimeWritten: a paused tick writes the running time *)
TimeWrittenRunning(t) == Elapsed(t)
(* what update writes to iTime *)
TimeWritten(t) == IF ~pause THEN Elapsed(t) ELSE frozenTimeRef

(* loadAnimationStartRef after the first statement of update's body *)
LoadStart(t) ==
    IF pageLoadAnimation /\ loadAnimationStartRef = 0 THEN t ELSE loadAnimationStartRef

WritesProgress(t) == pageLoadAnimation /\ LoadStart(t) > 0

(* variant of Progress: no upper clamp *)
ProgressUnclamped(t) == t - LoadStart(t)
(* Math.min(animationElapsed / animationDuration, 1), over animationDuration *)
Progress(t) == Min(t - LoadStart(t), animationDuration)

(* update(t): elapsed time and page-load progress *)
UpdateFrameState(t) ==
    /\ loadAnimationStartRef' = LoadStart(t)
    /\ iTime' = TimeWritten(t)
    /\ frozenTimeRef' = IF ~pause THEN Elapsed(t) ELSE frozenTimeRef
    /\ uPageLoadProgress' = IF WritesProgress(t) THEN Progress(t) ELSE uPageLoadProgress
    /\ frameLog' = [by |-> "tick",
                    snapshot |-> IF ~pause THEN Elapsed(t) ELSE frameLog.snapshot,
                    recorded |-> IF pageLoadAnimation /\ loadAnimationStartRef = 0
                                 THEN t ELSE frameLog.recorded,
                    wrote |-> WritesProgress(t),
                    written |-> IF WritesProgress(t) THEN Progress(t) ELSE frameLog.written,
                    before |-> frameLog.written,
                    time |-> TimeWritten(t)]
    /\ UNCHANGED <<pause, pageLoadAnimation, timeScale, timeOffsetRef>>

(* The refs at mount and the uniforms of the program the effect makes, for  *)
(* the props and the offset Math.random() gave.                             *)
InitFrame(p, pla, ts, offset) ==
    /\ pause = p
    /\ pageLoadAnimation = pla
    /\ timeScale = ts
    /\ timeOffsetRef = offset
    /\ frozenTimeRef = 0
    /\ iTime = 0
    /\ loadAnimationStartRef = 0
    /\ uPageLoadProgress = (IF pla THEN 0 ELSE animationDuration)
    /\ frameLog = [by |-> "effect", snapshot |-> -1, recorded |-> -1, wrote |-> FALSE,
                   written |-> -1, before |-> -1, time |-> -1]

----------------------------------------------------------------------------
(* Mouse smoothing *)

(* dampingFactor = 0.08 = DampingNum / DampingDen *)
DampingNum == 2
DampingDen == 25

(* The smoothed coordinates are exact fractions whose numerators outgrow    *)
(* the machine integers: a natural number is the sequence of its digits to  *)
(* the base BigBase, least significant first, <<>> for 0.                   *)
BigBase == 10000

RECURSIVE BigOf(_)
BigOf(k) == IF k = 0 THEN <<>> ELSE <<k % BigBase>> \o BigOf(k \div BigBase)

RECURSIVE BigMulCarry(_, _, _)
BigMulCarry(a, k, carry) ==
    IF a = <<>> THEN BigOf(carry)
    ELSE <<(Head(a) * k + carry) % BigBase>> \o
         BigMulCarry(Tail(a), k, (Head(a) * k + carry) \div BigBase)

(* a * k for a machine integer k of at most a few hundred *)
BigMul(a, k) == IF k = 0 THEN <<>> ELSE BigMulCarry(a, k, 0)

RECURSIVE BigAddCarry(_, _, _)
BigAddCarry(a, b, carry) ==
    IF a = <<>> THEN (IF carry = 0 THEN b ELSE BigAddCarry(<<carry>>, b, 0))
    ELSE IF b = <<>> THEN (IF carry = 0 THEN a ELSE BigAddCarry(a, <<carry>>, 0))
    ELSE <<(Head(a) + Head(b) + carry) % BigBase>> \o
         BigAddCarry(Tail(a), Tail(b), (Head(a) + Head(b) + carry) \div BigBase)

BigAdd(a, b) == BigAddCarry(a, b, 0)

RECURSIVE BigLeqFrom(_, _, _)
BigLeqFrom(a, b, i) ==
    IF i = 0 THEN TRUE
    ELSE IF a[i] # b[i] THEN a[i] < b[i]
    ELSE BigLeqFrom(a, b, i - 1)

BigLeq(a, b) == IF Len(a) # Len(b) THEN Len(a) < Len(b) ELSE BigLeqFrom(a, b, Len(a))

(* variant of Smoothed: half the damping factor *)
SmoothedSlower(s, r, den) ==
    BigAdd(BigMul(s, DampingDen - 1), BigMul(den, r))
(* variant of Smoothed: raw * dampingFactor is added, not the difference *)
SmoothedAdditive(s, r, den) ==
    BigAdd(BigMul(s, DampingDen), BigMul(den, DampingNum * r))
(* smoothMouse.x += (mouse.x - smoothMouse.x) * dampingFactor, for the      *)
(* numerator s over 100 * den and the raw coordinate r in hundredths: the   *)
(* new numerator, over 100 * den * DampingDen, is                           *)
(* DampingDen * s + DampingNum * (r * den - s).                             *)
Smoothed(s, r, den) ==
    BigAdd(BigMul(s, DampingDen - DampingNum), BigMul(den, DampingNum * r))

(* the refs at mount: both positions are the centre *)
InitMouse ==
    /\ mouseRef = [x |-> 50, y |-> 50]
    /\ smoothMouseRef = [x |-> BigOf(50), y |-> BigOf(50)]
    /\ smoothed = 0
    /\ smoothDen = BigOf(1)
    /\ mouseLog = [ticked |-> FALSE, held |-> 0,
                   from |-> [x |-> BigOf(50), y |-> BigOf(50)],
                   prev |-> [x |-> BigOf(50), y |-> BigOf(50)]]

----------------------------------------------------------------------------
(* The fragment shader's gather step, in exact rational arithmetic.          *)
(* A rational is [n, d] in lowest terms with d > 0; a vec2 is [x, y] of      *)
(* rationals and the shader's vec2 operations act on each component.         *)

Abs(a) == IF a < 0 THEN -a ELSE a

Rat(n, d) ==
    LET g == Gcd(Abs(n), Abs(d))
        sign == IF d < 0 THEN -1 ELSE 1
    IN [n |-> sign * (n \div g), d |-> sign * (d \div g)]

RatAdd(a, b) ==
    LET l == (a.d \div Gcd(a.d, b.d)) * b.d
    IN Rat(a.n * (l \div a.d) + b.n * (l \div b.d), l)

RatNeg(a) == [n |-> -a.n, d |-> a.d]

RatSub(a, b) == RatAdd(a, RatNeg(b))

RatMul(a, b) ==
    LET g1 == Gcd(Abs(a.n), b.d)
        g2 == Gcd(Abs(b.n), a.d)
    IN Rat((a.n \div g1) * (b.n \div g2), (a.d \div g2) * (b.d \div g1))

RatInv(a) == Rat(a.d, a.n)

RatDiv(a, b) == RatMul(a, RatInv(b))

RatFloor(a) == Rat(a.n \div a.d, 1)

RatLess(a, b) == a.n * b.d < b.n * a.d

\* clamp(x, lo, hi)
clamp(x, lo, hi) == IF RatLess(x, lo) THEN lo ELSE IF RatLess(hi, x) THEN hi ELSE x

Vec2(vx, vy) == [x |-> vx, y |-> vy]

\* uGridMul * 15.0 with the gridMul the application passes, [2, 1]
GridMulX == 2
GridMulY == 1
GridCells == 15
gridVec == Vec2(Rat(GridMulX * GridCells, 1), Rat(GridMulY * GridCells, 1))

\* variant: a gather step applied at every progress
GatherActiveAlways(g) == ~RatLess(g, Rat(0, 1))

\* if(uGatherProgress > 0.001)
GatherActive(g) == RatLess(Rat(1, 1000), g)

\* float prog = clamp(uGatherProgress, 0.0, 0.9999) * 0.58
GatherProg(g) == RatMul(clamp(g, Rat(0, 1), Rat(9999, 10000)), Rat(58, 100))

\* One component of the remap of position q towards targetWorld:
\*   s = (q - targetWorld * prog) / (1.0 - prog);  s_cell = floor(s * gridVec) / gridVec;
\*   s_new = s_cell + (targetWorld - s_cell) * prog;  cellCenter = s_cell + 0.5 / gridVec;
\*   q = cellCenter + (q - s_new)
GatherComponent(q, targetWorld, prog, grid) ==
    LET s == RatDiv(RatSub(q, RatMul(targetWorld, prog)), RatSub(Rat(1, 1), prog))
        s_cell == RatDiv(RatFloor(RatMul(s, grid)), grid)
        s_new == RatAdd(s_cell, RatMul(RatSub(targetWorld, s_cell), prog))
        cellCenter == RatAdd(s_cell, RatDiv(Rat(1, 2), grid))
    IN RatAdd(cellCenter, RatSub(q, s_new))

\* the position main() leaves in q (p, or mouseSamplingPos) after the gather step
Gathered(q, u) ==
    IF GatherActive(u.uGatherProgress)
    THEN LET prog == GatherProg(u.uGatherProgress)
         IN Vec2(GatherComponent(q.x, RatMul(u.uTargetPos.x, u.uScale), prog, gridVec.x),
                 GatherComponent(q.y, RatMul(u.uTargetPos.y, u.uScale), prog, gridVec.y))
    ELSE q

\* vec2 p = uv * uScale;  mouseSamplingPos = uMouse * uScale
Scale2(v, u) == Vec2(RatMul(v.x, u.uScale), RatMul(v.y, u.uScale))

NoFragment == [ran |-> FALSE, uv |-> Vec2(Rat(0, 1), Rat(0, 1)),
               p |-> Vec2(Rat(0, 1), Rat(0, 1)), sample |-> Vec2(Rat(0, 1), Rat(0, 1)),
               mouseSamplingPos |-> Vec2(Rat(0, 1), Rat(0, 1))]

InitShader(g, target, mouse, us) ==
    /\ drawUniforms = [uGatherProgress |-> g, uTargetPos |-> target,
                       uMouse |-> mouse, uScale |-> us]
    /\ fragment = NoFragment

----------------------------------------------------------------------------
(* Shuffle: the refs its effect keeps, and what build(), play() and         *)
(* armHover() do to them.                                                   *)

MaxRuns == 3
MaxRepeats == 2
MaxHovers == 3

(* gsap.timeline({ repeat: loop ? -1 : 0, ... }) *)
PlayTimeline(props) == [repeat |-> IF props.loop THEN -1 ELSE 0]

(* build() then play(): teardown kills the timeline and clears playingRef;  *)
(* play returns early without strips, else sets playingRef and starts the   *)
(* timeline.                                                                *)
BuildAndPlay ==
    /\ playingRef' = shuffleProps.strips
    /\ tlRef' = IF shuffleProps.strips THEN "running" ELSE "null"

(* armHover(): registers the mouseenter handler when triggerOnHover *)
Armed(registered) == IF shuffleProps.triggerOnHover THEN TRUE ELSE registered

(* create(): build, play, armHover, setReady *)
create ==
    /\ BuildAndPlay
    /\ hoverHandlerRef' = Armed(hoverHandlerRef)
    /\ shuffleLog' = [shuffleLog EXCEPT !.created = TRUE, !.runs = @ + 1]

(* The state after the effect ran for the props: with triggerOnce false     *)
(* create() has run, otherwise the ScrollTrigger waits.                     *)
InitShuffle(loop, once, hover, strips) ==
    /\ shuffleProps = [loop |-> loop, triggerOnce |-> once, triggerOnHover |-> hover,
                       strips |-> strips]
    /\ playingRef = (~once /\ strips)
    /\ tlRef = (IF ~once /\ strips THEN "running" ELSE "null")
    /\ hoverHandlerRef = (~once /\ hover)
    /\ shuffleLog = [created |-> ~once, runs |-> IF once THEN 0 ELSE 1, repeats |-> 0,
                     hovers |-> 0]

\* the labels and the header of App: loop, no scroll trigger, hover armed
InitLabel == InitShuffle(TRUE, FALSE, TRUE, TRUE)

\* the uniforms as the effect creates them, at the reference window and scale 1
InitDraw ==
    /\ InitShader(Rat(0, 1), Vec2(Rat(1, 2), Rat(1, 2)), Vec2(Rat(1, 2), Rat(1, 2)), Rat(1, 1))
    /\ InitLabel

Init ==
    /\ InitTransition
    /\ InitScheduler(FALSE)
    /\ InitResize(1920, 1080, 4, 25)
    /\ InitFrame(FALSE, TRUE, 10, 0)
    /\ InitMouse
    /\ InitDraw

----------------------------------------------------------------------------
(* FaultyTerminal under an arbitrary parent *)

(* One run of update(t), from the frame callback or the background timer;    *)
(* the callbacks are the parent's business.                                   *)
Tick(dt) ==
    /\ now + dt <= MaxTime
    /\ now' = now + dt
    /\ Update(now')
    /\ UNCHANGED <<appVars, refVars, trip, restVars>>

(* The parent renders FaultyTerminal with new request props: the refs take   *)
(* the props' values in the function body.                                   *)
Rerender(requested, target, zoomBack) ==
    /\ <<requested, target, zoomBack>> #
          <<transitionRequestedRef, transitionTargetRef, zoomBackRequestedRef>>
    /\ transitionRequested' = requested
    /\ transitionTarget' = target
    /\ zoomBackRequested' = zoomBack
    /\ transitionRequestedRef' = requested
    /\ transitionTargetRef' = target
    /\ zoomBackRequestedRef' = zoomBack
    /\ abort' = IF transitionRequestedRef /\ ~requested /\ transitionStartRef > 0
                THEN "pending" ELSE abort
    /\ UNCHANGED <<selectedWord, shownWord, trip>>
    /\ UNCHANGED <<now, transitionStartRef, zoomBackStartRef, uGatherProgress, uTargetPos,
                   last, tcCalls, zbcCalls, sinceTC, restVars>>

Next ==
    \/ \E dt \in TickDeltas : Tick(dt)
    \/ \E requested \in BOOLEAN, target \in TargetInputs, zoomBack \in BOOLEAN :
          Rerender(requested, target, zoomBack)

Spec == Init /\ [][Next]_vars

----------------------------------------------------------------------------
(* FaultyTerminal under App, the navigation controller *)

(* App's function body runs with the current state and renders              *)
(* FaultyTerminal with it: the refs take the props, the view follows        *)
(* selectedWord.                                                            *)
Commit ==
    /\ transitionRequestedRef' = transitionRequested'
    /\ transitionTargetRef' = transitionTarget'
    /\ zoomBackRequestedRef' = zoomBackRequested'
    /\ shownWord' = selectedWord'

Logged(event) ==
    IF Len(trip.log) < MaxLog THEN [trip EXCEPT !.log = Append(@, event)] ELSE trip

(* App's effect on [selectedWord], run by the render that commits a new     *)
(* selectedWord: the cleanup cancels the outer callback if it is still      *)
(* pending (the inner one is not cancelled), then a selected page requests  *)
(* the outer callback.                                                      *)
HeaderEffect(raf, word) ==
    IF word # NULL THEN "outer" ELSE IF raf = "outer" THEN "none" ELSE raf

(* The callbacks of the effect in an animation frame: the outer one         *)
(* requests the inner one, the inner one calls setHeaderAtTop(true).        *)
HeaderFrame(raf) == IF raf = "outer" THEN "inner" ELSE "none"

(* A click on one of the three labels; they are rendered in the main view.  *)
(* The update of a click is rendered before the next event.                 *)
handleWordClick(target) ==
    /\ shownWord = NULL
    /\ selectedWord' = target
    /\ transitionTarget' = LabelCentre(target)
    /\ transitionRequested' = TRUE
    /\ UNCHANGED zoomBackRequested
    /\ Commit
    /\ trip' = [fromIdle |-> uGatherProgress = 0 /\ ~transitionRequested /\ ~zoomBackRequested,
                log |-> <<>>]
    /\ headerAtTop' = FALSE
    /\ headerRaf' = HeaderEffect(headerRaf, selectedWord')
    /\ UNCHANGED <<tickVars, sliceVars>>

(* A click on Return; the button is rendered whenever a page is selected.   *)
handleReturnClick ==
    /\ shownWord # NULL
    /\ zoomBackRequested' = TRUE
    /\ UNCHANGED <<transitionRequested, transitionTarget, selectedWord>>
    /\ Commit
    /\ trip' = IF zoomBackRequested THEN trip ELSE Logged("Return")
    /\ headerAtTop' = FALSE
    /\ UNCHANGED <<tickVars, headerRaf, sliceVars>>

handleTransitionComplete ==
    /\ transitionRequested' = FALSE
    /\ UNCHANGED <<transitionTarget, selectedWord, zoomBackRequested>>

handleZoomBackComplete ==
    /\ zoomBackRequested' = FALSE
    /\ selectedWord' = NULL
    /\ transitionTarget' = NoTarget
    /\ UNCHANGED transitionRequested

(* An animation frame: one run of update(t) with App's callbacks, which set  *)
(* state that is rendered later (AppRender), after update has returned,     *)
(* then the pending callback of App's header effect.                        *)
AppTick(dt) ==
    /\ now + dt <= MaxTime
    /\ now' = now + dt
    /\ Update(now')
    /\ CASE Called(now') = "onTransitionComplete" -> handleTransitionComplete
         [] Called(now') = "onZoomBackComplete" -> handleZoomBackComplete
         [] OTHER -> UNCHANGED <<transitionRequested, transitionTarget, selectedWord,
                                 zoomBackRequested>>
    /\ trip' = IF Called(now') # "none" THEN Logged(Called(now'))
               ELSE IF ZoomBackBranch /\ zoomBackStartRef = 0 THEN Logged("zoomBackStart")
               ELSE trip
    /\ headerRaf' = HeaderFrame(headerRaf)
    /\ headerAtTop' = (IF headerRaf = "inner" THEN TRUE ELSE headerAtTop)
    /\ UNCHANGED <<shownWord, refVars, sliceVars>>

(* The render scheduled by a callback's state updates. *)
AppRender ==
    /\ <<transitionRequestedRef, transitionTargetRef, zoomBackRequestedRef, shownWord>> #
          <<transitionRequested, transitionTarget, zoomBackRequested, selectedWord>>
    /\ UNCHANGED <<transitionRequested, transitionTarget, selectedWord, zoomBackRequested>>
    /\ Commit
    /\ headerRaf' = (IF selectedWord # shownWord
                     THEN HeaderEffect(headerRaf, selectedWord) ELSE headerRaf)
    /\ UNCHANGED <<tickVars, trip, headerAtTop, sliceVars>>

NextApp ==
    \/ \E dt \in TickDeltas : AppTick(dt)
    \/ \E target \in Words : handleWordClick(target)
    \/ handleReturnClick
    \/ AppRender

AppSpec == Init /\ [][NextApp]_vars

----------------------------------------------------------------------------
(* The frame scheduler under visibility changes, re-initialization, unmount *)

(* window.devicePixelRatio in quarters (0: undefined) and the scale prop in *)
(* tenths, as drawn when the effect runs again.                             *)
DprInputs == {0, 4, 5, 8}
ScaleInputs == {10, 25}

(* The hidden branch of onVisibilityChange: the timers after it. *)
(* variant of HiddenBranchIntervals: no timer is started *)
HiddenBranchIntervalsNever(ivs, ref, g) == ivs
HiddenBranchIntervals(ivs, ref, g) ==
    IF ref = "null" THEN Append(Untracked(ivs), Scheduled(g)) ELSE ivs

(* The visible branch of onVisibilityChange, and the cleanup: the timers    *)
(* after clearInterval under the null test.                                 *)
ClearedIntervals(ivs, ref) == IF ref # "null" THEN Cancelled(ivs) ELSE ivs

(* onVisibilityChange of the mounted surface, run with document.hidden = h *)
onVisibilityChange(h) ==
    IF h
    THEN /\ rafQueue' = Cancelled(rafQueue)
         /\ intervals' = HiddenBranchIntervals(intervals, visibilityIntervalRef, surface)
         /\ visibilityIntervalRef' = "id"
    ELSE /\ intervals' = ClearedIntervals(intervals, visibilityIntervalRef)
         /\ visibilityIntervalRef' = "null"
         /\ rafQueue' = Requested(rafQueue, surface)

(* The page is hidden or shown; the listener is registered while a surface  *)
(* is mounted.                                                              *)
VisibilityChange ==
    /\ hidden' = ~hidden
    /\ IF surface # 0 THEN onVisibilityChange(hidden')
       ELSE UNCHANGED <<rafQueue, intervals, visibilityIntervalRef>>
    /\ lastEvent' = [by |-> IF hidden' THEN "hidden" ELSE "visible", gens |-> {}]
    /\ UNCHANGED <<surface, effectError, notSchedVars>>

(* An animation frame; the browser runs none while the document is hidden. *)
Frame ==
    /\ ~hidden
    /\ rafQueue # <<>>
    /\ rafQueue' = RunFrame(rafQueue, <<>>, hidden)
    /\ lastEvent' = [by |-> "frame", gens |-> {rafQueue[i].gen : i \in DOMAIN rafQueue}]
    /\ UNCHANGED <<hidden, surface, visibilityIntervalRef, intervals, effectError,
                   notSchedVars>>

(* A period of an active timer: update(performance.now()) *)
IntervalFire ==
    \E i \in DOMAIN intervals :
        /\ rafQueue' = UpdateSchedule(rafQueue, intervals[i].gen, hidden)
        /\ lastEvent' = [by |-> "interval", gens |-> {intervals[i].gen}]
        /\ UNCHANGED <<hidden, surface, visibilityIntervalRef, intervals, effectError,
                   notSchedVars>>

(* A prop of the dependency list changes (scale, pause, pageLoadAnimation   *)
(* or one the model does not follow), the window having some device pixel   *)
(* ratio by then: the cleanup, which cancels the                            *)
(* callback and the timer the refs name and leaves the refs as they are,    *)
(* then the effect again, which makes a new program, resizes and requests   *)
(* its first frame callback.                                                *)
Reinit(ratio, sc, p, pla) ==
    /\ surface \in 1..(MaxGen - 1)
    /\ surface' = surface + 1
    /\ rafQueue' = Requested(Cancelled(rafQueue), surface')
    /\ intervals' = ClearedIntervals(intervals, visibilityIntervalRef)
    /\ lastEvent' = [by |-> "reinit", gens |-> {}]
    /\ UNCHANGED <<hidden, visibilityIntervalRef, effectError>>
    /\ scale' = sc
    /\ dpr' = EffectDpr(ratio)
    /\ resizeTick' = 0
    /\ resize(innerWidth, innerHeight)
    /\ resizeLog' = [by |-> "effect", at |-> -1, gap |-> -1, same |-> FALSE, ratio |-> ratio]
    /\ devicePixelRatio' = ratio
    /\ UNCHANGED <<clock, innerWidth, innerHeight>>
    /\ pause' = p
    /\ pageLoadAnimation' = pla
    /\ iTime' = 0
    /\ uPageLoadProgress' = (IF pla THEN 0 ELSE animationDuration)
    /\ frameLog' = [frameLog EXCEPT !.by = "effect", !.wrote = FALSE]
    /\ UNCHANGED <<timeScale, timeOffsetRef, frozenTimeRef, loadAnimationStartRef>>
    /\ uGatherProgress' = 0
    /\ uTargetPos' = DefaultTargetPos
    /\ reinitLog' = [zoomed |-> Zoomed,
                     target |-> IF Zoomed THEN uTargetPos ELSE DefaultTargetPos]
    /\ UNCHANGED <<mouseVars, shaderVars, headerVars, shuffleVars>>
    /\ UNCHANGED <<appVars, refVars, trip, now, transitionStartRef, zoomBackStartRef,
                   last, tcCalls, zbcCalls, sinceTC, abort>>

(* The component unmounts: the cleanup alone. *)
Unmount ==
    /\ surface # 0
    /\ surface' = 0
    /\ rafQueue' = Cancelled(rafQueue)
    /\ intervals' = ClearedIntervals(intervals, visibilityIntervalRef)
    /\ lastEvent' = [by |-> "unmount", gens |-> {}]
    /\ UNCHANGED <<hidden, visibilityIntervalRef, effectError, notSchedVars>>

(* A prop of the dependency list changes while no WebGL context can be     *)
(* created: the cleanup of the previous run, then the effect throws before *)
(* it registers anything and React unmounts the tree.                      *)
ReinitThrows(failure) ==
    /\ surface # 0
    /\ surface' = 0
    /\ rafQueue' = Cancelled(rafQueue)
    /\ intervals' = ClearedIntervals(intervals, visibilityIntervalRef)
    /\ lastEvent' = [by |-> "reinit", gens |-> {}]
    /\ effectError' = failure
    /\ UNCHANGED <<hidden, visibilityIntervalRef, notSchedVars>>

InitSched ==
    /\ InitTransition
    /\ \E h \in BOOLEAN :
          \/ InitScheduler(h)
          \/ \E failure \in ContextFailures : InitFailedMount(h, failure)
    /\ InitResize(1920, 1080, 4, 25)
    /\ InitFrame(FALSE, TRUE, 10, 0)
    /\ InitMouse
    /\ InitDraw

NextSched ==
    \/ VisibilityChange
    \/ Frame
    \/ IntervalFire
    \/ Reinit(devicePixelRatio, scale, pause, pageLoadAnimation)
    \/ \E failure \in ContextFailures : ReinitThrows(failure)
    \/ Unmount

SchedSpec == InitSched /\ [][NextSched]_vars

(* The same visibilitychange event delivered a second time, right after    *)
(* the first: the handler runs again with document.hidden as it is.         *)
Redeliver ==
    /\ surface # 0
    /\ lastEvent.by \in {"hidden", "visible"}
    /\ Len(rafQueue) < MaxPending
    /\ onVisibilityChange(hidden)
    /\ lastEvent' = [by |-> "repeat", gens |-> {}]
    /\ UNCHANGED <<hidden, surface, effectError, notSchedVars>>

NextDelivery ==
    \/ NextSched
    \/ Redeliver

DeliverySpec == InitSched /\ [][NextDelivery]_vars

----------------------------------------------------------------------------
(* The window under resize events *)

WindowSizes == {<<1920, 1080>>, <<2560, 1080>>, <<800, 1000>>}

(* Time between two consecutive resize events *)
ResizeDeltas == {0, 60, 120, 200}

(* variant of Throttled: half the interval *)
ThrottledShorter(t, tick) == t - tick < 60
(* the early return of throttledResize *)
Throttled(t, tick) == t - tick < ThrottleMs

(* A resize event dt ms after the latest one, the window now w x h:         *)
(* throttledResize                                                          *)
WindowResize(w, h, dt) ==
    /\ clock + dt <= MaxClock
    /\ clock' = clock + dt
    /\ innerWidth' = w
    /\ innerHeight' = h
    /\ UNCHANGED <<scale, dpr, devicePixelRatio>>
    /\ IF Throttled(clock', resizeTick)
       THEN /\ UNCHANGED <<resizeTick, iResolution, uScale, rendererSize, canvasStyle>>
            /\ resizeLog' = [resizeLog EXCEPT !.by = "dropped", !.gap = -1, !.same = FALSE]
       ELSE /\ resizeTick' = clock'
            /\ resize(w, h)
            /\ resizeLog' = [by |-> "event", at |-> clock',
                             gap |-> IF resizeLog.at = -1 THEN -1 ELSE clock' - resizeLog.at,
                             same |-> <<w, h>> = <<iResolution.x, iResolution.y>>,
                             ratio |-> resizeLog.ratio]
    /\ UNCHANGED notResizeVars

(* window.devicePixelRatio changes (browser zoom, another monitor); the     *)
(* resize event that comes with it is a WindowResize step.                  *)
RatioChange(ratio) ==
    /\ ratio # devicePixelRatio
    /\ devicePixelRatio' = ratio
    /\ resizeLog' = [resizeLog EXCEPT !.by = "ratio", !.gap = -1, !.same = FALSE]
    /\ UNCHANGED <<clock, innerWidth, innerHeight, scale, dpr, resizeTick,
                   iResolution, uScale, rendererSize, canvasStyle>>
    /\ UNCHANGED notResizeVars

InitWindow ==
    /\ InitTransition
    /\ InitScheduler(FALSE)
    /\ \E size \in WindowSizes, ratio \in DprInputs, sc \in ScaleInputs :
          InitResize(size[1], size[2], ratio, sc)
    /\ InitFrame(FALSE, TRUE, 10, 0)
    /\ InitMouse
    /\ InitDraw

NextResize ==
    \/ \E size \in WindowSizes, dt \in ResizeDeltas : WindowResize(size[1], size[2], dt)
    \/ \E ratio \in DprInputs : RatioChange(ratio)
    \/ \E ratio \in DprInputs, sc \in ScaleInputs :
          Reinit(ratio, sc, pause, pageLoadAnimation)

ResizeSpec == InitWindow /\ [][NextResize]_vars

----------------------------------------------------------------------------
(* Elapsed time and page-load progress under ticks and changes of pause     *)
(* and pageLoadAnimation                                                    *)

TimeScaleInputs == {3, 10}
TimeOffsetInputs == {0, 42500}

(* One run of update(t), without its scheduling and its mouse part *)
FrameTick(dt) ==
    /\ now + dt <= MaxTime
    /\ now' = now + dt
    /\ Update(now')
    /\ UpdateFrameState(now')
    /\ UNCHANGED notFrameVars

InitStage ==
    /\ InitTransition
    /\ InitScheduler(FALSE)
    /\ InitResize(1920, 1080, 4, 25)
    /\ \E p \in BOOLEAN, pla \in BOOLEAN, ts \in TimeScaleInputs, offset \in TimeOffsetInputs :
          InitFrame(p, pla, ts, offset)
    /\ InitMouse
    /\ InitDraw

NextFrame ==
    \/ \E dt \in TickDeltas : FrameTick(dt)
    \/ \E p \in BOOLEAN, pla \in BOOLEAN : Reinit(devicePixelRatio, scale, p, pla)

FrameSpec == InitStage /\ [][NextFrame]_vars

----------------------------------------------------------------------------
(* The mouse: mousemove events and the smoothing of update, with mouseReact *)
(* on as App sets it                                                        *)

(* clientX / innerWidth and clientY / innerHeight of an event, in           *)
(* hundredths: a corner, the opposite one, a point in between               *)
MousePositions == {<<0, 0>>, <<99, 99>>, <<30, 80>>}

Scaled(position) ==
    [x |-> BigMul(position.x, DampingDen), y |-> BigMul(position.y, DampingDen)]

(* A mousemove event at another position than the latest one *)
handleMouseMove(cx, cy) ==
    /\ smoothed < MaxMoveTicks
    /\ mouseRef' = [x |-> cx, y |-> 100 - cy]
    /\ mouseRef' # mouseRef
    /\ mouseLog' = [mouseLog EXCEPT !.ticked = FALSE, !.held = 0, !.from = smoothMouseRef]
    /\ UNCHANGED <<smoothMouseRef, smoothed, smoothDen, notMouseVars>>

(* The mouse part of one run of update *)
MouseTick ==
    /\ smoothed < MaxSmoothTicks
    /\ smoothMouseRef' = [x |-> Smoothed(smoothMouseRef.x, mouseRef.x, smoothDen),
                          y |-> Smoothed(smoothMouseRef.y, mouseRef.y, smoothDen)]
    /\ smoothed' = smoothed + 1
    /\ smoothDen' = BigMul(smoothDen, DampingDen)
    /\ mouseLog' = [ticked |-> TRUE, held |-> mouseLog.held + 1,
                    from |-> Scaled(mouseLog.from), prev |-> Scaled(smoothMouseRef)]
    /\ UNCHANGED <<mouseRef, notMouseVars>>

NextMouse ==
    \/ \E position \in MousePositions : handleMouseMove(position[1], position[2])
    \/ MouseTick

MouseSpec == Init /\ [][NextMouse]_vars

(* Pointer events the window also receives while the pointer is outside    *)
(* the viewport (a drag that began inside it): right of it, clientX = 3 *   *)
(* innerWidth, and above it, clientY = -2 * innerHeight.                    *)
PointerPositions == MousePositions \cup {<<300, 50>>, <<50, -200>>}

NextPointer ==
    \/ \E position \in PointerPositions : handleMouseMove(position[1], position[2])
    \/ MouseTick

PointerSpec == Init /\ [][NextPointer]_vars

----------------------------------------------------------------------------
(* The transition machine driven by the scheduler: update runs from the     *)
(* frame callbacks and the background timers that are actually pending,     *)
(* while the parent raises one request and holds it.  A callback that is    *)
(* due eventually runs.                                                     *)

\* the latest time a request is raised, so that its phase can end by MaxTime
LatestRequest == MaxTime - GATHER_DURATION_MS - 1000

(* An animation frame: every pending callback runs update(t) with the       *)
(* frame's timestamp; update is idempotent in t as far as the refs, the     *)
(* progress and the completion callbacks go, so the batch acts as one.      *)
FrameUpdate(dt) ==
    /\ ~hidden
    /\ rafQueue # <<>>
    /\ now + dt <= MaxTime
    /\ rafQueue' = RunFrame(rafQueue, <<>>, hidden)
    /\ lastEvent' = [by |-> "frame", gens |-> {rafQueue[i].gen : i \in DOMAIN rafQueue}]
    /\ now' = now + dt
    /\ Update(now')
    /\ UNCHANGED <<hidden, surface, visibilityIntervalRef, intervals, effectError>>
    /\ UNCHANGED <<appVars, refVars, trip, resizeVars, frameVars, mouseVars,
                       shaderVars, headerVars, shuffleVars, programVars>>

(* A period of an active timer: update(performance.now()) *)
TimerUpdate(dt) ==
    \E i \in DOMAIN intervals :
        /\ now + dt <= MaxTime
        /\ rafQueue' = UpdateSchedule(rafQueue, intervals[i].gen, hidden)
        /\ lastEvent' = [by |-> "interval", gens |-> {intervals[i].gen}]
        /\ now' = now + dt
        /\ Update(now')
        /\ UNCHANGED <<hidden, surface, visibilityIntervalRef, intervals, effectError>>
        /\ UNCHANGED <<appVars, refVars, trip, resizeVars, frameVars, mouseVars,
                       shaderVars, headerVars, shuffleVars, programVars>>

UpdateRuns == \E dt \in TickDeltas : FrameUpdate(dt) \/ TimerUpdate(dt)

(* The parent sets transitionRequested (with a target) and holds it. *)
HoldTransition(target) ==
    /\ now <= LatestRequest
    /\ ~transitionRequestedRef
    /\ ~zoomBackRequestedRef
    /\ Rerender(TRUE, target, FALSE)

(* The parent sets zoomBackRequested and holds it. *)
HoldZoomBack ==
    /\ now <= LatestRequest
    /\ ~transitionRequestedRef
    /\ ~zoomBackRequestedRef
    /\ Rerender(FALSE, transitionTargetRef, TRUE)

InitBackground ==
    /\ InitTransition
    /\ \E h \in BOOLEAN : InitScheduler(h)
    /\ InitResize(1920, 1080, 4, 25)
    /\ InitFrame(FALSE, TRUE, 10, 0)
    /\ InitMouse
    /\ InitDraw

NextBackground ==
    \/ VisibilityChange
    \/ \E dt \in TickDeltas : FrameUpdate(dt)
    \/ \E dt \in TickDeltas : TimerUpdate(dt)
    \/ Reinit(devicePixelRatio, scale, pause, pageLoadAnimation)
    \/ \E target \in TargetInputs : HoldTransition(target)
    \/ HoldZoomBack

BackgroundSpec == InitBackground /\ [][NextBackground]_vars /\ WF_vars(UpdateRuns)

----------------------------------------------------------------------------
(* The transition machine under a parent that changes a RenderConfig prop:  *)
(* it raises a request, clears it once the phase has completed (as App's    *)
(* completion handlers do), and now and then renders with a new prop of the *)
(* effect's dependency list.  The page stays visible.                       *)

(* The parent clears the request flags after a completed phase. *)
ReleaseRequest ==
    /\ \/ transitionRequestedRef /\ transitionStartRef = -1
       \/ zoomBackRequestedRef /\ zoomBackStartRef = -1
    /\ Rerender(FALSE, transitionTargetRef, FALSE)

NextReconfig ==
    \/ \E dt \in TickDeltas : FrameUpdate(dt)
    \/ \E target \in TargetInputs : HoldTransition(target)
    \/ HoldZoomBack
    \/ ReleaseRequest
    \/ Reinit(devicePixelRatio, scale, pause, pageLoadAnimation)

ReconfigSpec == Init /\ [][NextReconfig]_vars

----------------------------------------------------------------------------
(* Shuffle: the scroll trigger, the timeline's callbacks and mouseenter.    *)

(* ScrollTrigger onEnter (once): create *)
ScrollEnter ==
    /\ shuffleProps.triggerOnce
    /\ ~shuffleLog.created
    /\ create
    /\ UNCHANGED <<shuffleProps, notShuffleVars>>

(* The timeline reaches its end and repeats: onRepeat.  A timeline with     *)
(* repeat -1 never completes.                                               *)
TimelineRepeat ==
    /\ tlRef = "running"
    /\ PlayTimeline(shuffleProps).repeat = -1
    /\ shuffleLog.repeats < MaxRepeats
    /\ shuffleLog' = [shuffleLog EXCEPT !.repeats = @ + 1]
    /\ UNCHANGED <<shuffleProps, playingRef, tlRef, hoverHandlerRef, notShuffleVars>>

(* The timeline reaches its end with no repeat left: onComplete *)
TimelineComplete ==
    /\ tlRef = "running"
    /\ PlayTimeline(shuffleProps).repeat = 0
    /\ tlRef' = "complete"
    /\ playingRef' = FALSE
    /\ hoverHandlerRef' = IF ~shuffleProps.loop THEN Armed(hoverHandlerRef)
                          ELSE hoverHandlerRef
    /\ UNCHANGED <<shuffleProps, shuffleLog, notShuffleVars>>

(* A mouseenter on the element: the handler, if one is registered, returns  *)
(* while playingRef is set and else builds and plays.                       *)
Mouseenter ==
    /\ shuffleLog.hovers < MaxHovers
    /\ shuffleLog.runs < MaxRuns
    /\ IF hoverHandlerRef /\ ~playingRef
       THEN /\ BuildAndPlay
            /\ shuffleLog' = [shuffleLog EXCEPT !.hovers = @ + 1, !.runs = @ + 1]
       ELSE /\ shuffleLog' = [shuffleLog EXCEPT !.hovers = @ + 1]
            /\ UNCHANGED <<playingRef, tlRef>>
    /\ UNCHANGED <<shuffleProps, hoverHandlerRef, notShuffleVars>>

InitShuffled ==
    /\ InitTransition
    /\ InitScheduler(FALSE)
    /\ InitResize(1920, 1080, 4, 25)
    /\ InitFrame(FALSE, TRUE, 10, 0)
    /\ InitMouse
    /\ InitShader(Rat(0, 1), Vec2(Rat(1, 2), Rat(1, 2)), Vec2(Rat(1, 2), Rat(1, 2)), Rat(1, 1))
    /\ \E loop \in BOOLEAN, once \in BOOLEAN, hover \in BOOLEAN, strips \in BOOLEAN :
          InitShuffle(loop, once, hover, strips)

NextShuffle ==
    \/ ScrollEnter
    \/ TimelineRepeat
    \/ TimelineComplete
    \/ Mouseenter

ShuffleSpec == InitShuffled /\ [][NextShuffle]_vars

----------------------------------------------------------------------------
(* The fragment shader: main() run on one fragment of a draw call.  The      *)
(* uniforms of the draw call are drawn from small sets that include no       *)
(* gather (0), the threshold of the gather step (0.001) and values above it. *)

GatherInputs == {Rat(0, 1), Rat(1, 1000), Rat(1, 500), Rat(1, 2)}
Vec2Inputs == {Vec2(Rat(1, 2), Rat(1, 2)), Vec2(Rat(0, 1), Rat(1, 1)), Vec2(Rat(3, 10), Rat(4, 5))}
UScaleInputs == {Rat(1, 1), Rat(5, 2)}
UvSteps == 4
UvInputs == {Vec2(Rat(i, UvSteps), Rat(j, UvSteps)) : i \in 0..UvSteps, j \in 0..UvSteps}

\* main() on the fragment at uv (after barrel): p, the gather step, mouseSamplingPos
main(uv) ==
    /\ fragment' = [ran |-> TRUE, uv |-> uv,
                    p |-> Scale2(uv, drawUniforms),
                    sample |-> Gathered(Scale2(uv, drawUniforms), drawUniforms),
                    mouseSamplingPos |->
                        Gathered(Scale2(drawUniforms.uMouse, drawUniforms), drawUniforms)]
    /\ UNCHANGED <<drawUniforms, notShaderVars>>

InitFragment ==
    /\ InitTransition
    /\ InitScheduler(FALSE)
    /\ InitResize(1920, 1080, 4, 25)
    /\ InitFrame(FALSE, TRUE, 10, 0)
    /\ InitMouse
    /\ \E g \in GatherInputs, target \in Vec2Inputs, mouse \in Vec2Inputs, us \in UScaleInputs :
          InitShader(g, target, mouse, us)
    /\ InitLabel

NextShader == \E uv \in UvInputs : main(uv)

ShaderSpec == InitFragment /\ [][NextShader]_vars

----------------------------------------------------------------------------
(* Properties *)

IsTick == now' # now

(* time since a recorded phase start, for a tick with timestamp t *)
Since(startRef, t) == IF startRef > 0 THEN t - startRef ELSE 0

Count(log, event) == Cardinality({i \in 1..Len(log) : log[i] = event})

(* C1: onTransitionComplete fires exactly once per zoom-in: on the first     *)
(* tick whose elapsed time since the phase start is >= 1100 ms, never again  *)
(* while the flag stays true, and the phase is never restarted while the     *)
(* flag stays true.                                                          *)
C1_TransitionCompleteOnFirstTickPastDuration ==
    [][IsTick =>
        /\ tcCalls' <= 1
        /\ (transitionRequestedRef /\ transitionStartRef > 0
              /\ now' - transitionStartRef >= GATHER_DURATION_MS)
           => last'.cb = "onTransitionComplete"
        /\ (transitionRequestedRef /\ transitionStartRef # 0)
           => transitionStartRef' \in {transitionStartRef, -1}
      ]_vars

C3_ZoomRoundTrip ==
    (/\ trip.fromIdle
     /\ Len(trip.log) >= 2
     /\ trip.log[1] = "onTransitionComplete"
     /\ trip.log[2] = "Return"
     /\ Count(trip.log, "onZoomBackComplete") >= 1)
    => /\ uGatherProgress = 0
       /\ Count(trip.log, "onTransitionComplete") = 1
       /\ Count(trip.log, "onZoomBackComplete") = 1
       /\ Count(trip.log, "zoomBackStart") = 1
       /\ trip.log[3] = "zoomBackStart"
       /\ trip.log[4] = "onZoomBackComplete"

(* C3 witness: the round trip has been made and the main view is back.       *)
C3_Witness ==
    /\ trip.fromIdle
    /\ trip.log = <<"onTransitionComplete", "Return", "zoomBackStart", "onZoomBackComplete">>
    /\ selectedWord = NULL
    /\ shownWord = NULL
    /\ uGatherProgress = 0

(* C4: the gather progress written to uGatherProgress always lies in [0,1],  *)
(* for every sequence of ticks and of changes to the two request flags.      *)
C4_ProgressInUnitRange == uGatherProgress >= 0 /\ uGatherProgress <= ProgressDen

(* C4 witness: a zoom-back tick that interrupted an uncompleted zoom-in and  *)
(* wrote a value strictly between 0 and 1.                                   *)
C4_Witness ==
    /\ last.branch = "zoomBack"
    /\ transitionStartRef > 0
    /\ uGatherProgress > 0
    /\ uGatherProgress < ProgressDen

(* C5: in no reachable state has a zoom-in phase started and not completed   *)
(* (transitionStartRef > 0) while a zoom-back phase has started and not      *)
(* completed (zoomBackStartRef > 0).                                         *)
C5_OnePhaseAtATime == ~(transitionStartRef > 0 /\ zoomBackStartRef > 0)

(* C6: across consecutive ticks of one zoom-in phase the gather progress is  *)
(* non-decreasing, 0 on the phase's first tick and 1 on its last; across     *)
(* consecutive ticks of one zoom-back phase it is non-increasing, 1 on the   *)
(* first tick and 0 on the last.                                             *)
C6_MonotonicWithinPhase ==
    [][IsTick =>
        /\ (last'.branch = "zoomIn" /\ last'.started) => uGatherProgress' = 0
        /\ (last.branch = "zoomIn" /\ transitionStartRef > 0 /\ last'.branch = "zoomIn")
           => uGatherProgress' >= uGatherProgress
        /\ last'.cb = "onTransitionComplete" => uGatherProgress' = ProgressDen
        /\ (last'.branch = "zoomBack" /\ last'.started) => uGatherProgress' = ProgressDen
        /\ (last.branch = "zoomBack" /\ zoomBackStartRef > 0 /\ last'.branch = "zoomBack")
           => uGatherProgress' <= uGatherProgress
        /\ last'.cb = "onZoomBackComplete" => uGatherProgress' = 0
      ]_vars

(* C6 witness: a tick in the middle of a zoom-in phase, after at least one   *)
(* earlier tick of the same phase, with the progress strictly inside (0,1).  *)
C6_Witness ==
    /\ last.branch = "zoomIn"
    /\ ~last.started
    /\ last.cb = "none"
    /\ now - transitionStartRef >= 500
    /\ uGatherProgress > 0
    /\ uGatherProgress < ProgressDen

(* C7: zooming-in becomes zoomed only on a tick whose elapsed time since the *)
(* recorded phase start is >= 1100 ms; that tick sets the progress to        *)
(* exactly 1; a zoom-in tick with elapsed < 1100 ms invokes no callback and  *)
(* leaves the phase zooming-in.                                              *)
C7_ZoomedOnlyAfterDuration ==
    [][/\ IsTick =>
            /\ (last'.cb = "onTransitionComplete" \/ (transitionStartRef' = -1 /\ transitionStartRef # -1))
               => /\ last'.branch = "zoomIn"
                  /\ last'.cb = "onTransitionComplete"
                  /\ transitionStartRef' = -1
                  /\ Since(transitionStartRef, now') >= GATHER_DURATION_MS
                  /\ uGatherProgress' = ProgressDen
            /\ (last'.branch = "zoomIn" /\ Since(transitionStartRef, now') < GATHER_DURATION_MS)
               => /\ last'.cb = "none"
                  /\ transitionStartRef' > 0
                  /\ transitionStartRef' = (IF transitionStartRef = 0 THEN now' ELSE transitionStartRef)
       /\ ~IsTick => UNCHANGED <<transitionStartRef, uGatherProgress>>
      ]_vars

(* C7 witness: the completing tick has run, strictly later than 1100 ms      *)
(* after a start that an earlier tick recorded.                              *)
C7_Witness ==
    /\ last.branch = "zoomIn"
    /\ last.cb = "onTransitionComplete"
    /\ transitionStartRef = -1
    /\ uGatherProgress = ProgressDen
    /\ now >= 100 + GATHER_DURATION_MS

C9_RestartAfterAbort ==
    last.afterAbort # "none"
        => (last.started /\ transitionStartRef = now /\ uGatherProgress = 0)

(* C9 amended: the same, provided a tick that does not run the zoom-back     *)
(* branch has observed the flag cleared before it is set again.              *)
C9_RestartAfterObservedAbort ==
    last.afterAbort = "observed"
        => (last.started /\ transitionStartRef = now /\ uGatherProgress = 0)

(* C9 witness: a zoom-in was aborted, a tick saw the cleared flag, and the   *)
(* re-requested zoom-in has run its first tick.                              *)
C9_Witness ==
    /\ last.afterAbort = "observed"
    /\ last.branch = "zoomIn"
    /\ last.started
    /\ transitionStartRef = now
    /\ now >= 300

(* C10: whenever App shows the main three-label view (selectedWord = null)   *)
(* and neither request flag is set, the gather progress is 0.                *)
C10_MainViewIsIdle ==
    (selectedWord = NULL /\ ~transitionRequested /\ ~zoomBackRequested)
        => uGatherProgress = 0

----------------------------------------------------------------------------
(* Properties of the frame scheduler *)

TimerOf(g) == \E i \in DOMAIN intervals : intervals[i].gen = g

C12_RegimesExclusive == ~(rafQueue # <<>> /\ intervals # <<>>)

(* C13: every update that runs is the mounted surface's: no update of a    *)
(* disposed surface (an earlier generation, or any after the unmount) runs. *)
C13_DisposedNeverRuns == \A g \in lastEvent.gens : g = surface

(* C14: the second delivery of the same visibilitychange event leaves the  *)
(* frame callbacks, the timers and the timer ref as the first left them.    *)
C14_RedeliveryIdempotent ==
    [][lastEvent'.by = "repeat" =>
          UNCHANGED <<rafQueue, intervals, visibilityIntervalRef>>]_vars

----------------------------------------------------------------------------
(* Properties of resize *)

(* C15: after every step uScale is scale * min(w / 1920, h / 1080) * dpr   *)
(* for the configured scale, the effect's dpr and the window size the       *)
(* latest resize read (the one in iResolution), and a resize that runs      *)
(* again with the window as the previous resize read it leaves iResolution  *)
(* and uScale as they were.                                                 *)
C15_ResizeIdempotent ==
    [][/\ uScale' = scale' * dpr' * (IF 9 * iResolution'.x <= 16 * iResolution'.y
                                     THEN 9 * iResolution'.x ELSE 16 * iResolution'.y)
       /\ iResolution'.z[1] * iResolution'.y = iResolution'.z[2] * iResolution'.x
       /\ (resizeLog'.by = "event" /\ resizeLog'.same) => UNCHANGED <<iResolution, uScale>>
      ]_vars

(* resize has run twice in a row for a window that is not 16:9 *)
C15_Witness ==
    /\ resizeLog.by = "event"
    /\ resizeLog.same
    /\ resizeLog.gap # -1
    /\ <<innerWidth, innerHeight>> = <<800, 1000>>
    /\ iResolution = Resolution(800, 1000)

----------------------------------------------------------------------------
(* Properties of the frame state *)

(* C17: a tick that runs with pause true writes to iTime the value the     *)
(* latest tick with pause false wrote, and frozenTimeRef still holds that   *)
(* value after it; re-initializations in between do not change this.        *)
C17_FrozenWhilePaused ==
    (frameLog.by = "tick" /\ pause /\ frameLog.snapshot # -1) =>
        /\ iTime = frameLog.snapshot
        /\ frozenTimeRef = frameLog.snapshot

(* a paused tick after a re-initialization, later than the snapshot *)
C17_Witness ==
    /\ frameLog.by = "tick"
    /\ pause
    /\ surface > 1
    /\ frameLog.snapshot > 0
    /\ iTime = frameLog.snapshot
    /\ iTime < (now - 1000 + timeOffsetRef) * timeScale

(* C18: the value a tick writes to uPageLoadProgress is                    *)
(* clamp((now - loadStart) / 2000, 0, 1) for the load start the first       *)
(* writing tick recorded: it is in [0, 1], not below the value written      *)
(* before, and 1 from 2000 ms after that tick on.                           *)
C18_PageLoadProgress ==
    (frameLog.by = "tick" /\ frameLog.wrote) =>
        /\ uPageLoadProgress \in 0..2000
        /\ uPageLoadProgress = (IF now - frameLog.recorded < 0 THEN 0
                                ELSE IF now - frameLog.recorded > 2000 THEN 2000
                                ELSE now - frameLog.recorded)
        /\ frameLog.before # -1 => uPageLoadProgress >= frameLog.before
        /\ now - frameLog.recorded >= 2000 => uPageLoadProgress = 2000

(* the tick that takes the progress from a value inside (0, 1) to 1, more  *)
(* than 2000 ms after the load start                                        *)
C18_Witness ==
    /\ frameLog.by = "tick"
    /\ frameLog.wrote
    /\ now - frameLog.recorded > 2000
    /\ frameLog.before \in 1..1999
    /\ uPageLoadProgress = 2000

----------------------------------------------------------------------------
(* Properties of the mouse smoothing *)

(* the raw coordinate c over the denominator of the smoothed one *)
RawScaled(c) == BigMul(smoothDen, mouseRef[c])

(* |raw - smoothed| <= |raw - from| / 100 for the coordinate c: with the    *)
(* smoothed coordinate on the side of raw it started from, this is          *)
(* 99 * raw + from <= 100 * smoothed from below and the converse from above *)
WithinOnePercent(c) ==
    IF BigLeq(mouseLog.from[c], RawScaled(c))
    THEN BigLeq(BigAdd(BigMul(RawScaled(c), 99), mouseLog.from[c]),
                BigMul(smoothMouseRef[c], 100))
    ELSE BigLeq(BigMul(smoothMouseRef[c], 100),
                BigAdd(BigMul(RawScaled(c), 99), mouseLog.from[c]))

(* C19, as claimed: after 55 ticks with the raw position held, the         *)
(* distance between the smoothed and the raw position is at most 1% of the  *)
(* distance when the hold began.  Both coordinates shrink by the same       *)
(* factor, so the distance does what each coordinate does.                  *)
C19_WithinOnePercentAfter55 ==
    mouseLog.held = 55 => \A c \in {"x", "y"} : WithinOnePercent(c)

(* C19, amended: after 56 ticks or more with the raw position held, the    *)
(* distance is at most 1% of the distance when the hold began.              *)
C19_WithinOnePercentAfter56 ==
    mouseLog.held >= 56 => \A c \in {"x", "y"} : WithinOnePercent(c)

(* 56 ticks of a hold that began away from the raw position *)
C19_Witness ==
    /\ mouseLog.held = 56
    /\ mouseLog.ticked
    /\ \A c \in {"x", "y"} : mouseLog.from[c] # RawScaled(c)
    /\ smoothMouseRef # mouseLog.from

Between(a, b, c) == (BigLeq(a, b) /\ BigLeq(b, c)) \/ (BigLeq(c, b) /\ BigLeq(b, a))

(* C20: with every raw position in the unit square the smoothed position   *)
(* is in the unit square (a numerator is a natural number, and at most the  *)
(* denominator), and after a tick each smoothed coordinate is between its   *)
(* value before the tick and the raw coordinate, ends included.             *)
C20_NoOvershoot ==
    \A c \in {"x", "y"} :
        /\ BigLeq(smoothMouseRef[c], BigMul(smoothDen, 100))
        /\ mouseLog.ticked => Between(mouseLog.prev[c], smoothMouseRef[c], RawScaled(c))

(* a tick that moved both coordinates, one of them towards the edge 0 *)
C20_Witness ==
    /\ mouseLog.ticked
    /\ smoothed >= 2
    /\ mouseRef.x = 0
    /\ \A c \in {"x", "y"} :
          /\ smoothMouseRef[c] # mouseLog.prev[c]
          /\ smoothMouseRef[c] # RawScaled(c)

(* C21: when the gather progress of the draw call is 0, the position a      *)
(* fragment samples is its p = uv * uScale and the mouse sampling position  *)
(* is uMouse * uScale, for every fragment, target and mouse position.       *)
C21_NoRemapAtZero ==
    (fragment.ran /\ drawUniforms.uGatherProgress = Rat(0, 1)) =>
        /\ fragment.sample = fragment.p
        /\ fragment.mouseSamplingPos = Scale2(drawUniforms.uMouse, drawUniforms)

\* a fragment off the target shaded with progress 0, while the same fragment
\* is moved by the remap of a draw call above the threshold
C21_Witness ==
    /\ fragment.ran
    /\ drawUniforms.uGatherProgress = Rat(0, 1)
    /\ fragment.uv # drawUniforms.uTargetPos
    /\ fragment.sample = fragment.p
    /\ GatherComponent(fragment.p.x, RatMul(drawUniforms.uTargetPos.x, drawUniforms.uScale),
                       GatherProg(Rat(1, 2)), gridVec.x) # fragment.p.x

(* C22: when the WebGL context cannot be created during the effect, the     *)
(* component ends in an error state reported to its host, no frame loop of  *)
(* the failed run is started, and no exception leaves the effect.  The      *)
(* component has no error state: "reported" is a value effectError never    *)
(* takes.                                                                   *)
C22_InitFailureReported ==
    (lastEvent.by \in {"mount", "reinit"} /\ surface = 0) =>
        /\ effectError = "reported"
        /\ \A i \in DOMAIN rafQueue : ~rafQueue[i].ref

(* C23: a tick that runs with pause false writes to iTime the value the    *)
(* previous tick wrote plus (time since the previous tick) * timeScale,     *)
(* the first tick after a pause included.                                   *)
C23_TimeAdvancesByDelta ==
    [][(now' # now /\ ~pause /\ frameLog.time # -1) =>
          iTime' - frameLog.time = (now' - now) * timeScale]_vars

(* C24: a request that is held true is eventually answered by its          *)
(* completion callback, whatever the visibility of the page does, as long   *)
(* as callbacks that are due eventually run.                                *)
C24_CompletesWhileHidden ==
    /\ transitionRequestedRef ~> tcCalls > 0
    /\ (zoomBackRequestedRef /\ zoomBackStartRef >= 0) ~> zbcCalls > 0

(* C25: whatever pointer positions the events report, those outside the     *)
(* viewport included, the position update writes to uMouse (the smoothed    *)
(* position) is in the unit square after every tick.                        *)
C25_MouseUniformClamped ==
    mouseLog.ticked =>
        \A c \in {"x", "y"} : BigLeq(smoothMouseRef[c], BigMul(smoothDen, 100))

RendererSizeOf(w, h) == <<Ceil(w * RESOLUTION_SCALE, 100), Ceil(h * RESOLUTION_SCALE, 100)>>

(* C26 as stated: after every resize the renderer has ceil(0.88 w) by       *)
(* ceil(0.88 h), the canvas is styled w by h, and the ratio of the renderer *)
(* and of uScale is min(window.devicePixelRatio, 1.5).                      *)
C26_ResizeUsesCurrentRatio ==
    resizeLog.by \in {"effect", "event"} =>
        /\ rendererSize = RendererSizeOf(innerWidth, innerHeight)
        /\ canvasStyle = <<innerWidth, innerHeight>>
        /\ dpr = EffectDpr(devicePixelRatio)
        /\ dpr <= MaxDpr
        /\ uScale = scale * ScaleFactor(innerWidth, innerHeight, EffectDpr(devicePixelRatio))

(* C26 amended: the same, with the ratio the effect read when it last ran   *)
(* in place of the window's current one.                                    *)
C26_ResizeUsesEffectRatio ==
    resizeLog.by \in {"effect", "event"} =>
        /\ rendererSize = RendererSizeOf(innerWidth, innerHeight)
        /\ canvasStyle = <<innerWidth, innerHeight>>
        /\ dpr = EffectDpr(resizeLog.ratio)
        /\ dpr <= MaxDpr
        /\ uScale = scale * ScaleFactor(innerWidth, innerHeight, EffectDpr(resizeLog.ratio))

(* a resize event that changed the window, run by an effect that read a     *)
(* ratio of 2 (capped to 1.5) while the window now reports another          *)
C26_Witness ==
    /\ resizeLog.by = "event"
    /\ ~resizeLog.same
    /\ resizeLog.ratio = 8
    /\ dpr = MaxDpr
    /\ devicePixelRatio # resizeLog.ratio
    /\ rendererSize = <<1690, 951>>
    /\ canvasStyle = <<1920, 1080>>

(* C27: headerAtTop is true for a selected page only after                  *)
(* onTransitionComplete has fired in that page's visit, and never while     *)
(* the zoom-in is in progress.                                              *)
C27_HeaderAfterZoomSettled ==
    (headerAtTop /\ selectedWord # NULL) =>
        /\ \E i \in DOMAIN trip.log : trip.log[i] = "onTransitionComplete"
        /\ ~(transitionRequestedRef /\ transitionStartRef > 0)

(* C28: in the configuration of the labels and the header (loop, no scroll  *)
(* trigger, hover armed) a mouseenter after create() has run re-runs the    *)
(* shuffle: build and play run once more.  Stated for a mouseenter after    *)
(* the timeline has played through at least once, when the playing flag     *)
(* should long have become false.                                           *)
C28_HoverReruns ==
    [][(/\ shuffleLog'.hovers # shuffleLog.hovers
        /\ shuffleProps.loop /\ ~shuffleProps.triggerOnce /\ shuffleProps.triggerOnHover
        /\ shuffleProps.strips
        /\ shuffleLog.created
        /\ shuffleLog.repeats >= 1)
          => shuffleLog'.runs = shuffleLog.runs + 1]_vars

(* C29: while a surface is mounted at most one frame callback for update    *)
(* is pending.                                                              *)
C29_SingleFrameLoop == surface # 0 => Len(rafQueue) <= 1

(* C30: under App the tick that begins a zoom-back phase writes progress 1  *)
(* and the progress before it was 1 already: the phase follows a completed  *)
(* zoom-in and the progress does not jump.                                  *)
C30_NoJumpAtZoomBackStart ==
    [][(IsTick /\ ZoomBackBranch /\ zoomBackStartRef = 0) =>
          /\ uGatherProgress' = ProgressDen
          /\ uGatherProgress = ProgressDen
          /\ \E i \in DOMAIN trip.log : trip.log[i] = "onTransitionComplete"]_vars

(* The window as resize() would leave it: the uniforms, the renderer size   *)
(* and the canvas size computed from innerWidth x innerHeight.              *)
WindowShown ==
    /\ iResolution = Resolution(innerWidth, innerHeight)
    /\ canvasStyle = <<innerWidth, innerHeight>>
    /\ rendererSize = RendererSizeOf(innerWidth, innerHeight)
    /\ uScale = scale * ScaleFactor(innerWidth, innerHeight, dpr)

(* C31: resize converges to the final window size.  Nothing but a resize    *)
(* event or a run of the effect calls resize(), so the state a resize event *)
(* leaves is the state that lasts once events stop: after an event that     *)
(* arrived less than 120 ms after the previously processed one, iResolution,*)
(* uScale, the renderer size and the canvas size correspond to the current  *)
(* window dimensions.                                                       *)
C31_ResizeConverges ==
    (resizeLog.by = "dropped" /\ resizeLog.at >= 0) => WindowShown

(* C32: re-initialization preserves the transition state.  On the first     *)
(* frame rendered after the effect re-ran in the zoomed state (progress 1,  *)
(* no request flag set), with still no request flag set, the new program's  *)
(* gather progress is 1 and its target position is the one the previous     *)
(* program had.                                                             *)
C32_ReinitKeepsZoom ==
    [][(/\ IsTick
        /\ lastEvent.by = "reinit"
        /\ reinitLog.zoomed
        /\ ~transitionRequestedRef
        /\ ~zoomBackRequestedRef)
       => (uGatherProgress' = ProgressDen /\ uTargetPos' = reinitLog.target)]_vars

(* C33: background updates survive re-initialization.  When the effect      *)
(* re-runs on a hidden page whose surface had its background timer, the new *)
(* surface has an active background timer; and after a hidden event the     *)
(* mounted surface has one.                                                 *)
C33_TimerSurvivesReinit ==
    [][/\ (hidden /\ surface # 0 /\ TimerOf(surface) /\ surface' \notin {0, surface})
          => TimerOf(surface)'
       /\ (lastEvent'.by = "hidden" /\ surface' # 0) => TimerOf(surface)']_vars

(* a target that is non-null with both coordinates present *)
BothCoords(target) == target.absent = FALSE /\ target.x >= 0 /\ target.y >= 0

(* C34: a tick on which neither request flag is true leaves the gather      *)
(* progress uniform and the target position uniform unchanged; the target   *)
(* position uniform changes only on a tick of the zoom-in or the zoom-back  *)
(* branch, only when transitionTarget is non-null with both coordinates     *)
(* present, and then to that target.                                        *)
C34_IdleTickWritesNothing ==
    [][IsTick =>
         /\ (~transitionRequestedRef /\ ~zoomBackRequestedRef)
               => UNCHANGED <<uGatherProgress, uTargetPos>>
         /\ uTargetPos' # uTargetPos
               => /\ last'.branch \in {"zoomIn", "zoomBack"}
                  /\ BothCoords(transitionTargetRef)
                  /\ uTargetPos' = transitionTargetRef]_vars

(* C34 witness: a tick has run with neither flag set while the gather was   *)
(* complete and the target position was not the initial one, the target     *)
(* prop by then lacking a coordinate.                                       *)
C34_Witness ==
    /\ last.branch = "reset"
    /\ ~transitionRequestedRef
    /\ ~zoomBackRequestedRef
    /\ uGatherProgress = ProgressDen
    /\ uTargetPos = Point(50, 60)
    /\ transitionTargetRef = Point(25, -1)

====
